---- MODULE Spec2Model ----
(***************************************************************************)
(* Streaming-time tracker of main.py: the voice-state handler              *)
(* (on_voice_state_update), the 30 s flush loop (save_streaming_time) and  *)
(* the voice_time table they merge into.  Coroutines are modelled at the   *)
(* granularity of asyncio: the code between two awaits is one step.        *)
(***************************************************************************)
EXTENDS Integers, Sequences, FiniteSets, TLC

(* ------------------------------------------------------------------ *)
(* Bounds of the model                                                *)
(* ------------------------------------------------------------------ *)
\* the monotonic clock (asyncio loop time) runs from 0 to MaxSeconds seconds;
\* it is kept in half-seconds, finer than the whole seconds int() keeps
MaxSeconds == 36
\* stop handlers that may be suspended in their store call at once
MaxInflight == 1
\* voice-state events the gateway delivers in a run
MaxEvents == 4
\* clock steps a store call may stay pending
MaxLatency == 1
\* half-seconds the clock advances by in one step (2.5 s)
Quantum == 5
\* the longest Retry-After, in seconds, of a rate-limit response
MaxRetryAfter == 2

(* ------------------------------------------------------------------ *)
(* Program constants                                                  *)
(* ------------------------------------------------------------------ *)
\* "if session_time >= 5" (main.py 216, 271)
MIN_SESSION == 5
\* "if elapsed >= 30" (main.py 289)
CHECKPOINT_SECONDS == 30
\* "@tasks.loop(seconds=30)" (main.py 234)
LOOP_SECONDS == 30

\* the (guild_id, user_id) keys of the tracked members
Keys == {<<1, 1>>}

None == "None"

\* the key field of a coroutine that is at no key (a tuple, as the keys are)
NoKey == <<>>

\* a member's voice state: after.channel is not None, after.self_stream
VoiceState == [channel : BOOLEAN, self_stream : BOOLEAN]
NoVoice == [channel |-> FALSE, self_stream |-> FALSE]

VARIABLES
  now,          \* asyncio.get_event_loop().time(), in half-seconds
  next_flush,   \* when the next iteration of save_streaming_time is due
  join_times,   \* the global dict join_times: key -> recorded time
  voice_time,   \* the table voice_time: key -> total_seconds
  voice,        \* member.voice as cached by the client
  has_role,     \* stream_role in member.roles
  role_exists,  \* the guild has a role named STREAM_ROLE_NAME
  in_guild,     \* guild.get_member(user_id) is not None
  inflight,     \* stop handlers suspended at "await conn.execute"
  flush,        \* the save_streaming_time coroutine
  raised,       \* an exception escaped on_voice_state_update
  closing,      \* the on_close coroutine
  open_since,   \* history: start time of the session a start signal opened
  due,          \* history: whole seconds of the closed sessions of >= 5 s
  spent,        \* history: whole seconds of all the closed sessions
  last,         \* history: the latest event delivered, as the handler met it
  events,       \* history: voice-state events delivered so far
  guild_roles,  \* per guild, the names of ROLE_HIERARCHY that guild.roles resolves
  member_roles, \* per member, the rank roles in member.roles
  roster,       \* the members guild.get_member finds
  pass,         \* per caller, its update_guild_vc_roles coroutine
  reply,        \* what updateroles sent to its caller
  manual_outcome  \* history: what the pass of that updateroles did

vars == <<now, next_flush, join_times, voice_time, voice, has_role, role_exists,
          in_guild, inflight, flush, raised, open_since, due, spent, events, last,
          guild_roles, member_roles, roster, pass, reply, manual_outcome,
          closing>>

\* the variables of the rank-role passes, and those of the session tracker
roles_vars == <<guild_roles, member_roles, roster, pass, reply, manual_outcome>>
tracker_vars == <<now, next_flush, join_times, voice, has_role, role_exists,
                  in_guild, inflight, flush, raised, open_since, due, spent,
                  events, last, closing>>

env == <<voice, has_role, role_exists, in_guild>>
hist == <<open_since, due, spent>>

(* ------------------------------------------------------------------ *)
(* Pure helpers                                                       *)
(* ------------------------------------------------------------------ *)
\* int(x) of a non-negative duration x given in half-seconds: whole seconds,
\* truncated
PyInt(ticks) == ticks \div 2

\* int(asyncio.get_event_loop().time() - t)
ElapsedSince(t) == PyInt(now - t)

\* after.channel is not None and after.self_stream
IsStreaming(vs) == vs.channel /\ vs.self_stream

\* member.voice: None once the member is in no channel
CachedVoice(after) == IF after.channel THEN after ELSE NoVoice

\* faulty variant: "SET total_seconds = $3", the total is overwritten
UpsertOverwrites(table, key, delta) ==
  [k \in DOMAIN table \cup {key} |-> IF k = key THEN delta ELSE table[k]]

\* INSERT ... ON CONFLICT (guild_id, user_id) DO UPDATE SET total_seconds = total_seconds + $3
Upsert(table, key, delta) ==
  IF key \in DOMAIN table
    THEN [table EXCEPT ![key] = @ + delta]
    ELSE [k \in DOMAIN table \cup {key} |-> IF k = key THEN delta ELSE table[k]]

\* del join_times[key] / join_times.pop(key, None)
Without(d, key) == [k \in DOMAIN d \ {key} |-> d[k]]

\* join_times[key] = value
With(d, key, value) == [k \in DOMAIN d \cup {key} |-> IF k = key THEN value ELSE d[k]]

\* an empty dict, an empty table
EmptyMap == [k \in {} |-> 0]

\* total_seconds of a key, 0 when it has no row
Total(key) == IF key \in DOMAIN voice_time THEN voice_time[key] ELSE 0

RemoveAt(s, i) == [j \in 1..(Len(s) - 1) |-> IF j < i THEN s[j] ELSE s[j + 1]]

\* no event was delivered yet
NoSignal == [seen |-> FALSE, key |-> NoKey, qualifies |-> FALSE, active |-> FALSE]

FlushIdle == [pc |-> "sleep", todo |-> {}, key |-> NoKey, delta |-> 0, since |-> 0]

\* on_close has not run (saved: history, a save of it has returned)
NotClosing == [pc |-> "none", todo |-> {}, key |-> NoKey, delta |-> 0, saved |-> FALSE]

\* save_streaming_time is between two of its awaits: asyncio runs nothing else
Running == flush.pc = "loop"

(* ------------------------------------------------------------------ *)
(* on_voice_state_update                                              *)
(* ------------------------------------------------------------------ *)
\* has_role_now = stream_role in member.roles
HasRoleNow(k) == has_role[k]

\* had_role_before = stream_role in member.roles  (the roles as they are now)
HadRoleBefore(k) == has_role[k]

\* faulty variant: "or" for "and" in should_track_now
ShouldTrackNowEither(k, after) == IsStreaming(after) \/ HasRoleNow(k)

\* should_track_now = is_streaming_now and has_role_now
ShouldTrackNow(k, after) == IsStreaming(after) /\ HasRoleNow(k)

\* was_tracking_before = was_streaming_before and had_role_before
WasTrackingBefore(k, before) == IsStreaming(before) /\ HadRoleBefore(k)

\* faulty variant: the start branch without "key not in join_times"
StartBranchOverwrites(k, before, after) ==
  /\ ShouldTrackNow(k, after)
  /\ ~WasTrackingBefore(k, before)

\* if should_track_now and not was_tracking_before and key not in join_times
StartBranch(k, before, after) ==
  /\ ShouldTrackNow(k, after)
  /\ ~WasTrackingBefore(k, before)
  /\ k \notin DOMAIN join_times

\* elif was_tracking_before and not should_track_now and key in join_times
StopBranch(k, before, after) ==
  /\ ~StartBranch(k, before, after)
  /\ WasTrackingBefore(k, before)
  /\ ~ShouldTrackNow(k, after)
  /\ k \in DOMAIN join_times

\* faulty variant: every session of a whole second or more is saved
WorthSavingAny(session_time) == session_time > 0

\* "if session_time >= 5": the session is saved
WorthSaving(session_time) == session_time >= MIN_SESSION

\* history: the session a start signal opened ends now
Closed(k) ==
  IF k \notin DOMAIN open_since THEN UNCHANGED hist
  ELSE /\ open_since' = Without(open_since, k)
       /\ spent' = [spent EXCEPT ![k] = @ + ElapsedSince(open_since[k])]
       /\ due' = [due EXCEPT ![k] =
                    @ + (IF ElapsedSince(open_since[k]) >= MIN_SESSION
                           THEN ElapsedSince(open_since[k]) ELSE 0)]

\* the handler from its entry to its first await, or to its end, for an event
\* of a member of the guild that is no bot; the client has set member.voice to
\* the event's after state before it calls the handler.  The event stream is
\* unreliable: before and after are whatever the gateway sends
OnVoiceStateUpdate(k, before, after) ==
  /\ ~Running
  /\ in_guild[k]
  /\ events < MaxEvents /\ events' = events + 1
  /\ last' = [seen |-> TRUE, key |-> k,
              qualifies |-> IsStreaming(after) /\ has_role[k],
              active |-> k \in DOMAIN join_times]
  /\ voice' = [voice EXCEPT ![k] = CachedVoice(after)]
  /\ UNCHANGED <<now, next_flush, voice_time, has_role, role_exists, in_guild,
                 flush, raised>>
  /\ IF ~role_exists
       THEN UNCHANGED <<join_times, inflight, hist>>
     ELSE IF StartBranch(k, before, after)
       THEN /\ join_times' = With(join_times, k, now)
            /\ open_since' = With(open_since, k, now)
            /\ UNCHANGED <<inflight, due, spent>>
     ELSE IF StopBranch(k, before, after)
       THEN LET session_time == ElapsedSince(join_times[k]) IN
            /\ Closed(k)
            /\ IF WorthSaving(session_time)
                 THEN /\ Len(inflight) < MaxInflight
                      /\ inflight' = Append(inflight,
                           [key |-> k, session_time |-> session_time, since |-> now])
                      /\ UNCHANGED join_times
                 ELSE /\ join_times' = Without(join_times, k)
                      /\ UNCHANGED inflight
     ELSE UNCHANGED <<join_times, inflight, hist>>
  /\ UNCHANGED <<roles_vars, closing>>

\* the store call of a suspended stop handler returns (ok) or raises (~ok);
\* either way the handler goes on to "del join_times[key]"
StopHandlerResume(i, ok) ==
  /\ ~Running
  /\ i \in 1..Len(inflight)
  /\ LET h == inflight[i] IN
     /\ voice_time' = IF ok THEN Upsert(voice_time, h.key, h.session_time)
                      ELSE voice_time
     /\ IF h.key \in DOMAIN join_times
          THEN join_times' = Without(join_times, h.key) /\ UNCHANGED raised
          ELSE raised' = TRUE /\ UNCHANGED join_times
     /\ inflight' = RemoveAt(inflight, i)
  /\ UNCHANGED <<last, events, now, next_flush, env, flush, hist>>
  /\ UNCHANGED <<roles_vars, closing>>

(* ------------------------------------------------------------------ *)
(* save_streaming_time                                                *)
(* ------------------------------------------------------------------ *)
\* is_streaming = member.voice and member.voice.self_stream
FlushIsStreaming(k) == voice[k].channel /\ voice[k].self_stream

\* faulty variant: the role is not looked at
FlushLostStreamOnly(k) == ~FlushIsStreaming(k)

\* "if not is_streaming or not has_role"
FlushLostCondition(k) == ~FlushIsStreaming(k) \/ ~has_role[k]

\* the three "continue" of the loop body before the conditions are read
FlushSkips(k) ==
  \/ k \notin DOMAIN join_times
  \/ ~in_guild[k]
  \/ ~role_exists

\* faulty variant: ">" for ">="
CheckpointDueLate(elapsed) == elapsed > CHECKPOINT_SECONDS

\* "if elapsed >= 30"
CheckpointDue(elapsed) == elapsed >= CHECKPOINT_SECONDS

\* a loop iteration starts: keys_snapshot = list(join_times.keys()); db_pool
\* is set, on_ready starts the loop only after init_db has succeeded
FlushTick ==
  /\ flush.pc = "sleep"
  /\ now >= next_flush
  /\ next_flush' = next_flush + 2 * LOOP_SECONDS
  /\ flush' = [FlushIdle EXCEPT !.pc = "loop", !.todo = DOMAIN join_times]
  /\ UNCHANGED <<last, events, now, join_times, voice_time, env, inflight, raised, hist>>
  /\ UNCHANGED <<roles_vars, closing>>

\* the loop body for the next key of the snapshot, up to its await or its end
FlushKey(k) ==
  /\ flush.pc = "loop"
  /\ k \in flush.todo
  /\ UNCHANGED <<last, events, now, next_flush, voice_time, env, inflight, raised>>
  /\ LET rest == [flush EXCEPT !.todo = @ \ {k}] IN
     IF FlushSkips(k)
       THEN flush' = rest /\ UNCHANGED <<join_times, hist>>
     ELSE IF FlushLostCondition(k)
       THEN LET session_time == ElapsedSince(join_times[k]) IN
            IF WorthSaving(session_time)
              THEN /\ flush' = [rest EXCEPT !.pc = "await_final", !.key = k,
                                            !.delta = session_time, !.since = now]
                   /\ UNCHANGED <<join_times, hist>>
              ELSE /\ join_times' = Without(join_times, k)
                   /\ Closed(k)
                   /\ flush' = rest
     ELSE LET elapsed == ElapsedSince(join_times[k]) IN
          IF CheckpointDue(elapsed)
            THEN /\ flush' = [rest EXCEPT !.pc = "await_checkpoint", !.key = k,
                                          !.delta = elapsed, !.since = now]
                 /\ UNCHANGED <<join_times, hist>>
            ELSE flush' = rest /\ UNCHANGED <<join_times, hist>>
  /\ UNCHANGED <<roles_vars, closing>>

\* the snapshot is exhausted: the iteration ends and the loop sleeps
FlushEnd ==
  /\ flush.pc = "loop"
  /\ flush.todo = {}
  /\ flush' = FlushIdle
  /\ UNCHANGED <<last, events, now, next_flush, join_times, voice_time, env, inflight, raised, hist>>
  /\ UNCHANGED <<roles_vars, closing>>

\* the final save returns: join_times.pop(key, None); or raises: the except
\* clause of the loop body logs and the loop goes on to the next key
FlushFinalResume(ok) ==
  /\ flush.pc = "await_final"
  /\ flush' = [flush EXCEPT !.pc = "loop", !.key = NoKey, !.delta = 0, !.since = 0]
  /\ IF ok
       THEN /\ voice_time' = Upsert(voice_time, flush.key, flush.delta)
            /\ join_times' = Without(join_times, flush.key)
            /\ Closed(flush.key)
       ELSE UNCHANGED <<voice_time, join_times, hist>>
  /\ UNCHANGED <<last, events, now, next_flush, env, inflight, raised>>
  /\ UNCHANGED <<roles_vars, closing>>

\* the periodic save returns: join_times[key] = loop.time(); or raises
FlushCheckpointResume(ok) ==
  /\ flush.pc = "await_checkpoint"
  /\ flush' = [flush EXCEPT !.pc = "loop", !.key = NoKey, !.delta = 0, !.since = 0]
  /\ IF ok
       THEN /\ voice_time' = Upsert(voice_time, flush.key, flush.delta)
            /\ join_times' = With(join_times, flush.key, now)
       ELSE UNCHANGED <<voice_time, join_times>>
  /\ UNCHANGED <<last, events, now, next_flush, env, inflight, raised, hist>>
  /\ UNCHANGED <<roles_vars, closing>>

(* ------------------------------------------------------------------ *)
(* on_close                                                           *)
(* ------------------------------------------------------------------ *)
\* the handler starts: "for key in list(join_times.keys())"
OnClose ==
  /\ closing.pc = "none"
  /\ ~Running
  /\ closing' = [NotClosing EXCEPT !.pc = "loop", !.todo = DOMAIN join_times]
  /\ UNCHANGED <<now, next_flush, join_times, voice_time, env, inflight, flush,
                 raised, hist, last, events, roles_vars>>

\* the loop body for the next key, up to its await or its end:
\* "if session_time >= 5 and db_pool" (db_pool is set); a key that is gone
\* raises KeyError, which the except clause logs
CloseKey(k) ==
  /\ closing.pc = "loop"
  /\ k \in closing.todo
  /\ LET rest == [closing EXCEPT !.todo = @ \ {k}] IN
     IF k \in DOMAIN join_times /\ WorthSaving(ElapsedSince(join_times[k]))
       THEN closing' = [rest EXCEPT !.pc = "await", !.key = k,
                                    !.delta = ElapsedSince(join_times[k])]
       ELSE closing' = rest
  /\ UNCHANGED <<now, next_flush, join_times, voice_time, env, inflight, flush,
                 raised, hist, last, events, roles_vars>>

\* the save of on_close returns, or raises: the except clause logs
CloseSaveResume(ok) ==
  /\ closing.pc = "await"
  /\ closing' = [closing EXCEPT !.pc = "loop", !.key = NoKey, !.delta = 0,
                                !.saved = @ \/ ok]
  /\ voice_time' = IF ok THEN Upsert(voice_time, closing.key, closing.delta)
                   ELSE voice_time
  /\ UNCHANGED <<now, next_flush, join_times, env, inflight, flush,
                 raised, hist, last, events, roles_vars>>

\* the keys are exhausted: db_pool.close()
CloseEnd ==
  /\ closing.pc = "loop"
  /\ closing.todo = {}
  /\ closing' = [closing EXCEPT !.pc = "closed"]
  /\ UNCHANGED <<now, next_flush, join_times, voice_time, env, inflight, flush,
                 raised, hist, last, events, roles_vars>>

(* ------------------------------------------------------------------ *)
(* The clock and the guild                                            *)
(* ------------------------------------------------------------------ *)
\* the clock advances: no coroutine is between two awaits, no due loop
\* iteration is waiting, and no store call has been pending for MaxLatency steps
Tick ==
  /\ now + Quantum <= 2 * MaxSeconds
  /\ ~Running
  /\ ~(flush.pc = "sleep" /\ now >= next_flush)
  /\ flush.pc \in {"await_final", "await_checkpoint"} => now - flush.since < MaxLatency * Quantum
  /\ \A i \in 1..Len(inflight) : now - inflight[i].since < MaxLatency * Quantum
  /\ now' = now + Quantum
  /\ UNCHANGED <<last, events, next_flush, join_times, voice_time, env, inflight, flush, raised, hist>>
  /\ UNCHANGED <<roles_vars, closing>>

\* the member's voice state changes and no event reaches the handler
VoiceUnobserved(k, vs) ==
  /\ ~Running
  /\ in_guild[k]
  /\ voice[k] # CachedVoice(vs)
  /\ voice' = [voice EXCEPT ![k] = CachedVoice(vs)]
  /\ UNCHANGED <<last, events, now, next_flush, join_times, voice_time, has_role, role_exists,
                 in_guild, inflight, flush, raised, hist>>
  /\ UNCHANGED <<roles_vars, closing>>

\* the marker role is given to, or taken from, the member
RoleChange(k) ==
  /\ ~Running
  /\ in_guild[k] /\ role_exists
  /\ has_role' = [has_role EXCEPT ![k] = ~@]
  /\ UNCHANGED <<last, events, now, next_flush, join_times, voice_time, voice, role_exists,
                 in_guild, inflight, flush, raised, hist>>
  /\ UNCHANGED <<roles_vars, closing>>

\* the marker role is deleted from the guild, or created anew
RoleExistence ==
  /\ ~Running
  /\ role_exists' = ~role_exists
  /\ has_role' = [k \in Keys |-> FALSE]
  /\ UNCHANGED <<last, events, now, next_flush, join_times, voice_time, voice,
                 in_guild, inflight, flush, raised, hist>>
  /\ UNCHANGED <<roles_vars, closing>>

\* the member leaves the guild, or comes back
Membership(k) ==
  /\ ~Running
  /\ in_guild' = [in_guild EXCEPT ![k] = ~@]
  /\ voice' = [voice EXCEPT ![k] = NoVoice]
  /\ has_role' = [has_role EXCEPT ![k] = FALSE]
  /\ UNCHANGED <<last, events, now, next_flush, join_times, voice_time, role_exists,
                 inflight, flush, raised, hist>>
  /\ UNCHANGED <<roles_vars, closing>>

(* ------------------------------------------------------------------ *)
(* ROLE_HIERARCHY and update_guild_vc_roles                           *)
(* ------------------------------------------------------------------ *)
\* (name, threshold) in the order of the source, the least exclusive first;
\* a threshold is <<n>>, and <<>> for None
ROLE_HIERARCHY == <<
  [name |-> "VC Rookie",        threshold |-> <<>>],
  [name |-> "VC Raider",        threshold |-> <<50>>],
  [name |-> "VC Challenger",    threshold |-> <<40>>],
  [name |-> "VC Elite",         threshold |-> <<30>>],
  [name |-> "VC Legend",        threshold |-> <<20>>],
  [name |-> "VC Top Contender", threshold |-> <<10>>],
  [name |-> "VC Finalist",      threshold |-> <<5>>],
  [name |-> "VC Champ",         threshold |-> <<3>>],
  [name |-> "VC MVP",           threshold |-> <<2>>],
  [name |-> "Apex Speaker",     threshold |-> <<1>> ] >>

\* vc_role_names = [name for name, _ in ROLE_HIERARCHY]
vc_role_names == {ROLE_HIERARCHY[i].name : i \in 1..Len(ROLE_HIERARCHY)}

\* bot.guilds, in the order the loop visits them
Guilds == <<1, 2>>
GuildIds == {Guilds[i] : i \in 1..Len(Guilds)}

\* the (guild_id, user_id) of the users the passes meet: two in the first
\* guild, one in the second
Members == {<<1, 1>>, <<1, 2>>, <<2, 1>>}

\* the callers of update_guild_vc_roles: auto_update_vc_roles and updateroles
Callers == {"auto", "manual"}

\* reversed(s)
Reversed(s) == [i \in 1..Len(s) |-> s[Len(s) + 1 - i]]

\* "if threshold is None or rank <= threshold"
Admits(entry, rank) == entry.threshold = <<>> \/ rank <= entry.threshold[1]

\* the inner for loop from entry i on: the name of the first entry that
\* admits the rank; target_role stays None when no entry does
RECURSIVE FirstAdmitting(_, _, _)
FirstAdmitting(entries, rank, i) ==
  IF i > Len(entries) THEN None
  ELSE IF Admits(entries[i], rank) THEN entries[i].name
  ELSE FirstAdmitting(entries, rank, i + 1)

\* faulty variant: the hierarchy is scanned as written, not reversed
TargetRoleUnreversed(hierarchy, rank) == FirstAdmitting(hierarchy, rank, 1)

\* "for role_name, threshold in reversed(ROLE_HIERARCHY): ... break"
TargetRoleIn(hierarchy, rank) == FirstAdmitting(Reversed(hierarchy), rank, 1)

\* target_role of a rank
TargetRole(rank) == TargetRoleIn(ROLE_HIERARCHY, rank)

\* current_vc_roles = [r for r in member.roles if r.name in vc_role_names]
CurrentVcRoles(m) == member_roles[m] \cap vc_role_names

\* faulty variant: a member who holds the target among other rank roles is
\* skipped as well
HoldsTarget(current, target) == target \in current

\* faulty variant: no member is skipped
NeverCorrect(current, target) == FALSE

\* "if len(current_vc_roles) == 1 and current_vc_roles[0] == target_role"
AlreadyCorrect(current, target) == Cardinality(current) = 1 /\ current = {target}

\* the rows of a guild in the table
RowsOf(g) == {k \in DOMAIN voice_time : k[1] = g}

\* SELECT user_id, total_seconds ... WHERE guild_id=$1 ORDER BY total_seconds
\* DESC: every order of the guild's rows that is descending in total_seconds
\* (the order of equal totals is the store's choice)
Fetched(g) ==
  LET n == Cardinality(RowsOf(g))
      orders == {f \in [1..n -> RowsOf(g)] :
                   \A i, j \in 1..n :
                     i < j => f[i] # f[j] /\ voice_time[f[i]] >= voice_time[f[j]]}
  IN {[i \in 1..n |-> [user_id |-> f[i][2], total_seconds |-> voice_time[f[i]]]] :
        f \in orders}

\* faulty variant: no role is found missing
NoMissingRoles(g) == {}

\* missing_roles = [name for name in vc_role_names if name not in guild_roles]
MissingRoles(g) == vc_role_names \ guild_roles[g]

\* a coroutine of update_guild_vc_roles that is not running
\* (history: failed, the ranks whose calls raised; aborted, the pass returned
\* early after an error was logged; owed, the half-seconds of a Retry-After
\* the pass has not slept yet)
IdlePass == [pc |-> "idle", guild |-> 0, rows |-> <<>>, rank |-> 0,
             target |-> None, current |-> {}, updated_count |-> 0,
             todo |-> <<>>, failed |-> {}, aborted |-> FALSE, owed |-> 0]

\* the member of the row the pass is at
MemberAt(p, r) == <<p.guild, p.rows[r].user_id>>

\* the outer for loop from rank i on: the first rank whose user is a member of
\* the guild and is not skipped as already correct; Len(rows) + 1 when none is
RECURSIVE NextRank(_, _)
NextRank(p, i) ==
  IF i > Len(p.rows) THEN i
  ELSE IF MemberAt(p, i) \notin roster THEN NextRank(p, i + 1)
  ELSE IF AlreadyCorrect(CurrentVcRoles(MemberAt(p, i)), TargetRole(i))
    THEN NextRank(p, i + 1)
  ELSE i

\* the pass goes on from rank i up to its next await: the remove call when the
\* member has rank roles, else the add call; or the loop ends and it returns
Proceed(p, i) ==
  LET r == NextRank(p, i) IN
  IF r > Len(p.rows) THEN [p EXCEPT !.pc = "returned", !.rank = r]
  ELSE LET current == CurrentVcRoles(MemberAt(p, r))
           q == [p EXCEPT !.rank = r, !.target = TargetRole(r), !.current = current]
       IN IF current # {} THEN [q EXCEPT !.pc = "await_remove"]
          ELSE IF q.target # None THEN [q EXCEPT !.pc = "await_add"]
          ELSE [q EXCEPT !.pc = "await_sleep"]

\* the coroutine of caller c starts update_guild_vc_roles(guild) and suspends
\* in conn.fetch
Called(p, g) ==
  [IdlePass EXCEPT !.pc = "await_fetch", !.guild = g, !.todo = p.todo]

\* update_guild_vc_roles has returned to its caller, which runs on to its own
\* next await: auto_update_vc_roles sleeps 5 s when there are several guilds,
\* updateroles sends its reply and ends
BackInCaller(c, q) ==
  IF c = "auto"
    THEN IF Len(Guilds) > 1 THEN [IdlePass EXCEPT !.pc = "delay", !.todo = q.todo]
         ELSE IF Len(q.todo) > 1 THEN Called([q EXCEPT !.todo = Tail(@)], q.todo[2])
         ELSE IdlePass
    ELSE IdlePass

\* the coroutine of caller c has run to q: its next await, or the return of
\* update_guild_vc_roles, after which updateroles sends "VC roles updated
\* successfully!"
RunsTo(c, q) ==
  /\ pass' = [pass EXCEPT ![c] = IF q.pc = "returned" THEN BackInCaller(c, q) ELSE q]
  /\ reply' = IF q.pc = "returned" /\ c = "manual" THEN "success" ELSE reply
  /\ manual_outcome' = IF q.pc = "returned" /\ c = "manual"
                  THEN (IF q.aborted THEN "aborted"
                        ELSE IF q.failed # {} THEN "failed" ELSE "clean")
                  ELSE manual_outcome

\* what a call to the directory service may end in: it returns, or raises
\* discord.Forbidden, an HTTPException of status 429 with a Retry-After, or
\* another exception
Outcomes ==
  {[kind |-> k, retry_after |-> 0] : k \in {"ok", "forbidden", "error"}}
    \cup {[kind |-> "rate_limited", retry_after |-> d] : d \in 1..MaxRetryAfter}

\* history: a Retry-After of d seconds was received
Owing(p, outcome) ==
  IF outcome.kind = "rate_limited" /\ 2 * outcome.retry_after > p.owed
    THEN 2 * outcome.retry_after ELSE p.owed

\* history: the coroutine slept for a number of half-seconds
Slept(p, ticks) == IF p.owed > ticks THEN p.owed - ticks ELSE 0

\* an iteration of auto_update_vc_roles starts (db_pool is set): the pass of
\* the first guild
AutoUpdateVcRoles ==
  /\ pass["auto"].pc = "idle"
  /\ pass' = [pass EXCEPT !["auto"] = Called([IdlePass EXCEPT !.todo = Guilds], Guilds[1])]
  /\ UNCHANGED <<guild_roles, member_roles, roster, reply, manual_outcome, voice_time>>
  /\ UNCHANGED tracker_vars

\* /updateroles is invoked in guild g by an administrator
UpdaterolesSlash(g) ==
  /\ pass["manual"].pc = "idle"
  /\ pass' = [pass EXCEPT !["manual"] = Called(IdlePass, g)]
  /\ reply' = None
  /\ manual_outcome' = None
  /\ UNCHANGED <<guild_roles, member_roles, roster, voice_time>>
  /\ UNCHANGED tracker_vars

\* conn.fetch returns rows, or raises: "except Exception ... return".  With
\* rows: "if not rows: return", "if missing_roles: return", then the loop
FetchResume(c, ok, rows) ==
  /\ pass[c].pc = "await_fetch"
  /\ rows \in Fetched(pass[c].guild)
  /\ LET p == [pass[c] EXCEPT !.rows = rows] IN
     IF ~ok THEN RunsTo(c, [pass[c] EXCEPT !.pc = "returned", !.aborted = TRUE])
     ELSE IF rows = <<>> THEN RunsTo(c, [p EXCEPT !.pc = "returned"])
     ELSE IF MissingRoles(p.guild) # {}
       THEN RunsTo(c, [p EXCEPT !.pc = "returned", !.aborted = TRUE])
     ELSE RunsTo(c, Proceed(p, 1))
  /\ UNCHANGED <<guild_roles, member_roles, roster, voice_time>>
  /\ UNCHANGED tracker_vars

\* faulty variant: the exception ends the pass
ExceptedAborts(c, outcome) ==
  /\ RunsTo(c, [pass[c] EXCEPT !.pc = "returned", !.failed = @ \cup {pass[c].rank}])
  /\ UNCHANGED member_roles

\* the except clauses of the loop body: the error is logged and the for loop
\* goes on with the next row
Excepted(c, outcome) ==
  /\ RunsTo(c, Proceed([pass[c] EXCEPT !.failed = @ \cup {pass[c].rank},
                                       !.owed = Owing(pass[c], outcome)],
                       pass[c].rank + 1))
  /\ UNCHANGED member_roles

\* member.remove_roles(*current_vc_roles) returns, or raises
RemoveResume(c, outcome) ==
  /\ pass[c].pc = "await_remove"
  /\ IF outcome.kind = "ok"
       THEN /\ member_roles' = [member_roles EXCEPT
                                  ![MemberAt(pass[c], pass[c].rank)] = @ \ pass[c].current]
            /\ RunsTo(c, [pass[c] EXCEPT !.pc = IF pass[c].target # None
                                                 THEN "await_add" ELSE "await_sleep"])
       ELSE Excepted(c, outcome)
  /\ UNCHANGED <<guild_roles, roster, voice_time>>
  /\ UNCHANGED tracker_vars

\* member.add_roles(target_role) returns: updated_count += 1, then
\* asyncio.sleep(0.5); or raises
AddResume(c, outcome) ==
  /\ pass[c].pc = "await_add"
  /\ IF outcome.kind = "ok"
       THEN /\ member_roles' = [member_roles EXCEPT
                                  ![MemberAt(pass[c], pass[c].rank)] = @ \cup {pass[c].target}]
            /\ RunsTo(c, [pass[c] EXCEPT !.pc = "await_sleep", !.updated_count = @ + 1])
       ELSE Excepted(c, outcome)
  /\ UNCHANGED <<guild_roles, roster, voice_time>>
  /\ UNCHANGED tracker_vars

\* asyncio.sleep(0.5) is over: the for loop goes on with the next row
SleepResume(c) ==
  /\ pass[c].pc = "await_sleep"
  /\ RunsTo(c, Proceed([pass[c] EXCEPT !.owed = Slept(pass[c], 1)], pass[c].rank + 1))
  /\ UNCHANGED <<guild_roles, member_roles, roster, voice_time>>
  /\ UNCHANGED tracker_vars

\* asyncio.sleep(5) of auto_update_vc_roles is over: the pass of the next
\* guild, or the end of the iteration
DelayResume ==
  /\ pass["auto"].pc = "delay"
  /\ LET p == pass["auto"] IN
     pass' = [pass EXCEPT !["auto"] =
                IF Len(p.todo) > 1 THEN Called([p EXCEPT !.todo = Tail(@)], p.todo[2])
                ELSE IdlePass]
  /\ UNCHANGED <<guild_roles, member_roles, roster, reply, manual_outcome, voice_time>>
  /\ UNCHANGED tracker_vars

Init ==
  /\ now = 0
  /\ next_flush = 0
  /\ join_times = EmptyMap
  /\ voice_time = EmptyMap
  /\ voice = [k \in Keys |-> NoVoice]
  /\ has_role = [k \in Keys |-> FALSE]
  /\ role_exists = TRUE
  /\ in_guild = [k \in Keys |-> TRUE]
  /\ inflight = <<>>
  /\ flush = FlushIdle
  /\ raised = FALSE
  /\ closing = NotClosing
  /\ events = 0
  /\ last = NoSignal
  /\ open_since = EmptyMap
  /\ due = [k \in Keys |-> 0]
  /\ spent = [k \in Keys |-> 0]
  /\ guild_roles = [g \in GuildIds |-> vc_role_names]
  /\ member_roles = [m \in Members |-> {}]
  /\ roster = Members
  /\ pass = [c \in Callers |-> IdlePass]
  /\ reply = None
  /\ manual_outcome = None

Next ==
  \/ \E k \in Keys, before \in VoiceState, after \in VoiceState :
       OnVoiceStateUpdate(k, before, after)
  \/ \E i \in 1..MaxInflight, ok \in BOOLEAN : StopHandlerResume(i, ok)
  \/ FlushTick
  \/ \E k \in Keys : FlushKey(k)
  \/ FlushEnd
  \/ \E ok \in BOOLEAN : FlushFinalResume(ok)
  \/ \E ok \in BOOLEAN : FlushCheckpointResume(ok)
  \/ Tick
  \/ \E k \in Keys, vs \in VoiceState : VoiceUnobserved(k, vs)
  \/ \E k \in Keys : RoleChange(k)
  \/ RoleExistence
  \/ \E k \in Keys : Membership(k)

Spec == Init /\ [][Next]_vars

\* the same program with a store that never fails: every store call returns
NextReliable ==
  \/ \E k \in Keys, before \in VoiceState, after \in VoiceState :
       OnVoiceStateUpdate(k, before, after)
  \/ \E i \in 1..MaxInflight : StopHandlerResume(i, TRUE)
  \/ FlushTick
  \/ \E k \in Keys : FlushKey(k)
  \/ FlushEnd
  \/ FlushFinalResume(TRUE)
  \/ FlushCheckpointResume(TRUE)
  \/ Tick
  \/ \E k \in Keys, vs \in VoiceState : VoiceUnobserved(k, vs)
  \/ \E k \in Keys : RoleChange(k)
  \/ RoleExistence
  \/ \E k \in Keys : Membership(k)

SpecReliable == Init /\ [][NextReliable]_vars

\* a store call is pending in the stop handler or in the flush loop
StoreCallPending ==
  inflight # <<>> \/ flush.pc \in {"await_final", "await_checkpoint"}

\* the same program when every store call returns before anything else runs:
\* the handler and the flush loop never interleave at an await
NextSerial ==
  \/ \E i \in 1..MaxInflight : StopHandlerResume(i, TRUE)
  \/ FlushFinalResume(TRUE)
  \/ FlushCheckpointResume(TRUE)
  \/ ~StoreCallPending /\ \E k \in Keys, before \in VoiceState, after \in VoiceState :
                            OnVoiceStateUpdate(k, before, after)
  \/ ~StoreCallPending /\ FlushTick
  \/ ~StoreCallPending /\ \E k \in Keys : FlushKey(k)
  \/ ~StoreCallPending /\ FlushEnd
  \/ ~StoreCallPending /\ Tick
  \/ ~StoreCallPending /\ \E k \in Keys, vs \in VoiceState : VoiceUnobserved(k, vs)
  \/ ~StoreCallPending /\ \E k \in Keys : RoleChange(k)
  \/ ~StoreCallPending /\ RoleExistence
  \/ ~StoreCallPending /\ \E k \in Keys : Membership(k)

SpecSerial == Init /\ [][NextSerial]_vars

\* the program until the bot is closed, and on_close to its end: the handler
\* and the flush loop run as in SpecSerial until on_close starts, which is at
\* any time no store call is pending; on_close is then followed to its end
NextShutdown ==
  \/ closing.pc = "none" /\ \E i \in 1..MaxInflight : StopHandlerResume(i, TRUE)
  \/ closing.pc = "none" /\ FlushFinalResume(TRUE)
  \/ closing.pc = "none" /\ FlushCheckpointResume(TRUE)
  \/ closing.pc = "none" /\ ~StoreCallPending
       /\ \E k \in Keys, before \in VoiceState, after \in VoiceState :
            OnVoiceStateUpdate(k, before, after)
  \/ closing.pc = "none" /\ ~StoreCallPending /\ FlushTick
  \/ closing.pc = "none" /\ ~StoreCallPending /\ \E k \in Keys : FlushKey(k)
  \/ closing.pc = "none" /\ ~StoreCallPending /\ FlushEnd
  \/ closing.pc = "none" /\ ~StoreCallPending /\ Tick
  \/ closing.pc = "none" /\ ~StoreCallPending
       /\ \E k \in Keys, vs \in VoiceState : VoiceUnobserved(k, vs)
  \/ closing.pc = "none" /\ ~StoreCallPending /\ \E k \in Keys : RoleChange(k)
  \/ closing.pc = "none" /\ ~StoreCallPending /\ RoleExistence
  \/ closing.pc = "none" /\ ~StoreCallPending /\ \E k \in Keys : Membership(k)
  \/ ~StoreCallPending /\ OnClose
  \/ \E k \in Keys : CloseKey(k)
  \/ \E ok \in BOOLEAN : CloseSaveResume(ok)
  \/ CloseEnd

SpecShutdown == Init /\ [][NextShutdown]_vars

\* the rank-role passes on their own, one pass at a time: the table holds any
\* totals, the members hold any of the rank roles seen, a guild may lack one
\* role of the hierarchy, and the session tracker is at rest
Totals == {50, 90}
SeenRoles == {"Apex Speaker", "VC MVP", "VC Rookie"}
Lacking == {"VC Rookie", "Apex Speaker"}
\* the guild whose roles and members vary; the other guilds have every role
\* of the hierarchy and members who hold at most "VC Rookie"
Varied == Guilds[1]

InitRoles ==
  /\ now = 0
  /\ next_flush = 0
  /\ join_times = EmptyMap
  /\ voice = [k \in Keys |-> NoVoice]
  /\ has_role = [k \in Keys |-> FALSE]
  /\ role_exists = TRUE
  /\ in_guild = [k \in Keys |-> TRUE]
  /\ inflight = <<>>
  /\ flush = FlushIdle
  /\ raised = FALSE
  /\ closing = NotClosing
  /\ events = 0
  /\ last = NoSignal
  /\ open_since = EmptyMap
  /\ due = [k \in Keys |-> 0]
  /\ spent = [k \in Keys |-> 0]
  /\ voice_time \in UNION {[S -> Totals] : S \in SUBSET Members}
  /\ roster \in SUBSET Members
  /\ member_roles \in [Members -> SUBSET SeenRoles]
  /\ \A m \in Members :
       (m \notin roster \/ m \notin DOMAIN voice_time) => member_roles[m] = {}
  /\ \A m \in Members : m[1] # Varied => member_roles[m] \subseteq {"VC Rookie"}
  /\ guild_roles \in [GuildIds -> {vc_role_names \ S : S \in SUBSET Lacking}]
  /\ \A g \in GuildIds : g # Varied => guild_roles[g] = vc_role_names
  /\ pass = [c \in Callers |-> IdlePass]
  /\ reply = None
  /\ manual_outcome = None

NextRoles ==
  \/ pass["manual"].pc = "idle" /\ AutoUpdateVcRoles
  \/ pass["auto"].pc = "idle" /\ \E g \in GuildIds : UpdaterolesSlash(g)
  \/ \E c \in Callers, ok \in BOOLEAN, rows \in UNION {Fetched(g) : g \in GuildIds} :
       FetchResume(c, ok, rows)
  \/ \E c \in Callers, outcome \in Outcomes : RemoveResume(c, outcome)
  \/ \E c \in Callers, outcome \in Outcomes : AddResume(c, outcome)
  \/ \E c \in Callers : SleepResume(c)
  \/ DelayResume

SpecRoles == InitRoles /\ [][NextRoles]_vars

(* ------------------------------------------------------------------ *)
(* Properties                                                         *)
(* ------------------------------------------------------------------ *)
\* whole seconds of the session that is open now
OpenPart(k) == IF k \in DOMAIN open_since THEN ElapsedSince(open_since[k]) ELSE 0

\* a store call for the key is pending
MergePending(k) ==
  \/ \E i \in 1..Len(inflight) : inflight[i].key = k
  \/ flush.pc \in {"await_final", "await_checkpoint"} /\ flush.key = k

\* nothing is open or pending for the key
Settled(k) ==
  /\ k \notin DOMAIN open_since
  /\ k \notin DOMAIN join_times
  /\ ~MergePending(k)

\* C1. No double counting: the seconds in voice_time for a key are never more
\* than the elapsed time of its start-stop pairs of at least 5 s (plus the
\* session still open), and equal their sum once every session is closed and
\* merged, checkpoints between a start and its stop included.
NoDoubleCounting ==
  \A k \in Keys :
    /\ Total(k) <= due[k] + OpenPart(k)
    /\ Settled(k) => Total(k) = due[k]

\* C2. With an atomic upsert and a store that never fails, under every
\* interleaving of the flush task and the stop handler at their awaits the
\* seconds merged for a key never exceed the time between the starts and the
\* stops of its sessions: no interval is merged twice.
NoIntervalMergedTwice ==
  \A k \in Keys : Total(k) <= spent[k] + OpenPart(k)

\* the handler has just run for an event of key k
Handled(k) == events' = events + 1 /\ last'.key = k

\* the handler closes the session of k: it deletes the key, or suspends in the
\* store call after which it deletes it
TreatedAsStop(k) ==
  \/ k \notin DOMAIN join_times'
  \/ /\ Len(inflight') = Len(inflight) + 1
     /\ inflight'[Len(inflight')].key = k

\* C5. Dual-condition stop: an event for a key with an active session, whose
\* user streamed before it and after it no longer both streams and holds the
\* marker role, is treated as a stop, whichever condition was lost.
DualConditionStop ==
  [][\A k \in Keys, before \in VoiceState, after \in VoiceState :
       ( /\ OnVoiceStateUpdate(k, before, after)
         /\ k \in DOMAIN join_times
         /\ IsStreaming(before)
         /\ ~(IsStreaming(after) /\ has_role[k]) )
       => TreatedAsStop(k)]_vars

\* the session's unmerged time: now minus the recorded time, in whole seconds
Unmerged(k) == ElapsedSince(join_times[k])

\* the user of k streams, holds the marker role and is a member
StillQualifies(k) ==
  in_guild[k] /\ role_exists /\ has_role[k] /\ IsStreaming(voice[k])

\* C9. Flush bounds loss: whenever the flush loop sleeps between two of its
\* iterations, the unmerged time of an active, still-qualifying session is at
\* most one flush interval.
FlushBoundsLoss ==
  \A k \in DOMAIN join_times :
    (flush.pc = "sleep" /\ StillQualifies(k)) => Unmerged(k) <= LOOP_SECONDS

\* C10. Delta not lost on store failure: when the store call of a stop handler
\* raises, the session stays in join_times with its recorded time.
DeltaKeptOnStoreFailure ==
  [][\A i \in 1..Len(inflight) :
       StopHandlerResume(i, FALSE) =>
         /\ inflight[i].key \in DOMAIN join_times'
         /\ inflight[i].key \in DOMAIN join_times
              => join_times'[inflight[i].key] = join_times[inflight[i].key]]_vars

\* C3. Idempotent start: an event after which the user qualifies, for a key
\* that already has a session, leaves join_times as it is (one entry, the same
\* recorded time) and issues no merge.
IdempotentStart ==
  [][\A k \in Keys :
       (Handled(k) /\ last'.qualifies /\ last'.active)
       => (join_times' = join_times /\ voice_time' = voice_time
           /\ inflight' = inflight)]_vars

\* a start signal was handled for a key whose session was already open, and
\* the session still has the recorded time of its start
DuplicateStartHandled ==
  /\ last.seen /\ last.qualifies /\ last.active
  /\ last.key \in DOMAIN join_times
  /\ last.key \in DOMAIN open_since
  /\ join_times[last.key] = open_since[last.key]
  /\ join_times[last.key] < now

\* C4. Idempotent stop: an event after which the user does not qualify, for a
\* key with no session, changes neither join_times nor voice_time and issues
\* no merge.
IdempotentStop ==
  [][\A k \in Keys :
       (Handled(k) /\ ~last'.qualifies /\ ~last'.active)
       => (join_times' = join_times /\ voice_time' = voice_time
           /\ inflight' = inflight)]_vars

\* a stop signal was handled for a key whose session had been closed and saved
LateStopHandled ==
  /\ last.seen /\ ~last.qualifies /\ ~last.active
  /\ events >= 3
  /\ Total(last.key) >= MIN_SESSION
  /\ last.key \notin DOMAIN join_times

\* C6. Short-session discard: a session closed by a stop event or by the flush
\* loop's implicit stop with fewer than 5 whole seconds since its recorded time
\* is removed from join_times and no merge is issued for it.
ShortSessionDiscard ==
  [][\A k \in Keys :
       /\ ( /\ Handled(k)
            /\ k \in DOMAIN join_times
            /\ TreatedAsStop(k)
            /\ Unmerged(k) < MIN_SESSION )
          => ( /\ k \notin DOMAIN join_times'
               /\ voice_time' = voice_time
               /\ inflight' = inflight )
       /\ ( /\ FlushKey(k)
            /\ k \in DOMAIN join_times /\ in_guild[k] /\ role_exists
            /\ ~IsStreaming(voice[k]) \/ ~has_role[k]
            /\ Unmerged(k) < MIN_SESSION )
          => ( /\ k \notin DOMAIN join_times'
               /\ voice_time' = voice_time
               /\ flush'.pc = "loop" )]_vars

\* the sessions of a key were all closed short of 5 s: time was spent, nothing
\* is due, nothing was merged and nothing is pending
ShortSessionDiscarded ==
  \E k \in Keys :
    /\ spent[k] > 0 /\ due[k] = 0 /\ Total(k) = 0
    /\ Settled(k)

\* C7. Flush checkpoint: for a session whose user still qualifies, a flush
\* iteration with at least the flush interval elapsed issues a merge of exactly
\* the elapsed seconds, and when the merge returns the total has grown by them,
\* the recorded time is now and the session is in join_times; with less elapsed
\* it issues no merge and leaves the session as it is.
FlushCheckpoint ==
  [][/\ \A k \in Keys :
          (FlushKey(k) /\ k \in DOMAIN join_times /\ StillQualifies(k))
          => /\ join_times' = join_times
             /\ voice_time' = voice_time
             /\ IF Unmerged(k) >= LOOP_SECONDS
                  THEN /\ flush'.pc = "await_checkpoint"
                       /\ flush'.key = k
                       /\ flush'.delta = Unmerged(k)
                  ELSE flush'.pc = "loop"
     /\ FlushCheckpointResume(TRUE)
          => /\ flush.key \in DOMAIN voice_time'
             /\ voice_time'[flush.key] = Total(flush.key) + flush.delta
             /\ flush.key \in DOMAIN join_times'
             /\ join_times'[flush.key] = now']_vars

\* a checkpoint was taken: the recorded time of an open session is later than
\* its start and the interval is in the table
CheckpointTaken ==
  \E k \in DOMAIN join_times \cap DOMAIN open_since :
    /\ join_times[k] > open_since[k]
    /\ Total(k) >= LOOP_SECONDS

HandlerNeverRaises == ~raised

(* ------------------------------------------------------------------ *)
(* Properties of the rank-role passes                                 *)
(* ------------------------------------------------------------------ *)
\* the ranks the mapping is checked for: past the largest threshold
MaxRank == 52

\* the thresholds of the example, written as ROLE_HIERARCHY is: the least
\* exclusive tier first
ExampleHierarchy == <<
  [name |-> "T3", threshold |-> <<>>],
  [name |-> "T2", threshold |-> <<2>>],
  [name |-> "T1", threshold |-> <<1>> ] >>

\* entry i of a hierarchy has no threshold, or one that is at least the rank
Reaches(hierarchy, i, rank) ==
  hierarchy[i].threshold = <<>> \/ hierarchy[i].threshold[1] >= rank

\* the tiers that are first, from the most exclusive (the last written) to
\* the least, to reach the rank
FirstToReach(hierarchy, rank) ==
  {hierarchy[i].name : i \in {i \in 1..Len(hierarchy) :
      /\ Reaches(hierarchy, i, rank)
      /\ \A j \in (i + 1)..Len(hierarchy) : ~Reaches(hierarchy, j, rank)}}

\* every rank has one target, the first tier to reach it
MappingOfRanks ==
  \A rank \in 1..MaxRank :
    FirstToReach(ROLE_HIERARCHY, rank) = {TargetRole(rank)}

\* totals [100, 90, 90, 50] are ranks 1..4, with tiers T1, T2, T3, T3
MappingOfExample ==
  [rank \in 1..4 |-> TargetRoleIn(ExampleHierarchy, rank)] = <<"T1", "T2", "T3", "T3">>

\* the pass of caller c is suspended in the loop body, at a row
AtRow(c) == pass[c].pc \in {"await_remove", "await_add", "await_sleep"}

\* the pass of caller c is suspended in a mutation call
InCall(c) == pass[c].pc \in {"await_remove", "await_add"}

\* C12. Rank-to-tier mapping: the rows of a pass are the guild's rows in
\* descending order of total_seconds, the rank of a user is its 1-based
\* position in them, and its target is the first tier, from the most
\* exclusive to the least, whose threshold is none or at least the rank; every
\* rank has exactly one target, and ranks 1..4 under thresholds (T1,1),
\* (T2,2), (T3,none) get T1, T2, T3, T3.
RankToTierMapping ==
  /\ MappingOfRanks
  /\ MappingOfExample
  /\ \A c \in Callers :
       AtRow(c) =>
         LET p == pass[c] IN
         /\ \A i, j \in 1..Len(p.rows) :
              i < j => p.rows[i].total_seconds >= p.rows[j].total_seconds
         /\ {<<p.guild, p.rows[i].user_id>> : i \in 1..Len(p.rows)} = RowsOf(p.guild)
         /\ Len(p.rows) = Cardinality(RowsOf(p.guild))
         /\ p.rank \in 1..Len(p.rows)
         /\ FirstToReach(ROLE_HIERARCHY, p.rank) = {p.target}

\* a pass is adding the role of rank 2 to the second of two users with equal
\* totals: the rank is the position, not the total
TieRankedByPosition ==
  \E c \in Callers :
    /\ pass[c].pc = "await_add"
    /\ pass[c].rank = 2
    /\ pass[c].target = "VC MVP"
    /\ pass[c].rows[1].total_seconds = pass[c].rows[2].total_seconds

\* the pass of caller c takes up the member of a new row and suspends in a
\* mutation call for it
TakesUp(c) ==
  /\ pass'[c].pc \in {"await_remove", "await_add"}
  /\ pass'[c].rank # pass[c].rank

\* the member a pass record is at
Subject(p) == MemberAt(p, p.rank)

\* C13. Reconciliation minimality: a pass issues no add and no remove call
\* for a user whose rank roles are exactly {target}, and leaves his roles as
\* they are.
ReconciliationMinimality ==
  [][\A c \in Callers :
       /\ TakesUp(c) =>
            member_roles[Subject(pass'[c])] # {TargetRole(pass'[c].rank)}
       /\ \A m \in Members :
            member_roles'[m] # member_roles[m] =>
              \E d \in Callers :
                /\ pass[d].pc \in {"await_remove", "await_add"}
                /\ m = Subject(pass[d])
                /\ member_roles[m] # {TargetRole(pass[d].rank)}]_vars

\* a pass is at rank 2 or later, no call of it has raised and no role was
\* added, and the member of rank 1 holds exactly the role of rank 1: he was
\* skipped
SkippedAsCorrect ==
  \E c \in Callers :
    /\ InCall(c)
    /\ pass[c].rank >= 2
    /\ pass[c].failed = {} /\ pass[c].updated_count = 0
    /\ MemberAt(pass[c], 1) \in roster
    /\ member_roles[MemberAt(pass[c], 1)] = {TargetRole(1)}

\* C14. Apply rule: the remove call of a pass lists the rank roles of the user
\* other than the target, the add call is issued only for a user who did not
\* hold the target, and no step of a pass takes the target from a user who
\* holds it.
ApplyRule ==
  [][\A c \in Callers :
       /\ TakesUp(c) /\ pass'[c].pc = "await_remove" =>
            pass'[c].current = member_roles[Subject(pass'[c])] \ {pass'[c].target}
       /\ TakesUp(c) /\ pass'[c].pc = "await_add" =>
            pass'[c].target \notin member_roles[Subject(pass'[c])]
       /\ InCall(c) /\ pass[c].target \in member_roles[Subject(pass[c])] =>
            pass[c].target \in member_roles'[Subject(pass[c])]]_vars

\* a mutation call is issued by the pass of caller c
IssuesCall(c) ==
  /\ pass'[c].pc \in {"await_remove", "await_add"}
  /\ pass'[c].pc # pass[c].pc \/ pass'[c].rank # pass[c].rank

\* C15. Rate-limit resume: after a mutation of a pass has returned a
\* rate-limit response with retry duration d, the pass issues no further
\* mutation before it has slept for d.
RateLimitResume ==
  [][\A c \in Callers : IssuesCall(c) => pass'[c].owed = 0]_vars

\* rank r of the rows of pass record p is of a member who does not hold
\* exactly the role of the rank
NeedsUpdate(p, r) ==
  /\ MemberAt(p, r) \in roster
  /\ member_roles[MemberAt(p, r)] # {TargetRole(r)}

\* the ranks after the one the pass is at that need an update
LaterWork(p) == {r \in (p.rank + 1)..Len(p.rows) : NeedsUpdate(p, r)}

\* C16. Per-user failure does not abort the pass: when a mutation call for a
\* user raises permission-denied or another error, the pass goes on with the
\* next ranked user who needs an update, and returns only when there is none.
FailureDoesNotAbort ==
  [][\A c \in Callers, result \in Outcomes :
       ( /\ result.kind \in {"forbidden", "error"}
         /\ RemoveResume(c, result) \/ AddResume(c, result) )
       => IF LaterWork(pass[c]) = {}
            THEN pass'[c].pc \in {"idle", "delay"}
            ELSE /\ pass'[c].pc \in {"await_remove", "await_add"}
                 /\ pass'[c].guild = pass[c].guild
                 /\ pass'[c].rows = pass[c].rows
                 /\ pass'[c].rank \in LaterWork(pass[c])
                 /\ \A r \in LaterWork(pass[c]) : pass'[c].rank <= r]_vars

\* a call of the pass raised for one rank, no Retry-After was received, and
\* the pass is in a mutation call for a later rank
ContinuedAfterFailure ==
  \E c \in Callers :
    /\ InCall(c)
    /\ pass[c].owed = 0
    /\ \E r \in pass[c].failed : r < pass[c].rank

\* every role of the hierarchy is a role of the guild
Resolves(g) == vc_role_names \subseteq guild_roles[g]

\* C17. Missing tier configuration is fail-safe: a pass for a guild that lacks
\* a role of the hierarchy, or whose fetch is empty, ends with no add and no
\* remove call, and the loop over the guilds goes on to the passes of the
\* other guilds.
MissingTierFailSafe ==
  [][/\ \A c \in Callers, rows \in UNION {Fetched(g) : g \in GuildIds} :
          ( /\ FetchResume(c, TRUE, rows)
            /\ ~Resolves(pass[c].guild) \/ rows = <<>> )
          => /\ member_roles' = member_roles
             /\ pass'[c].pc = IF c = "auto" THEN "delay" ELSE "idle"
             /\ pass'[c].todo = pass[c].todo
     /\ \A c \in Callers :
          pass'[c].pc \in {"await_remove", "await_add", "await_sleep"} =>
            Resolves(pass'[c].guild) /\ pass'[c].rows # <<>>
     /\ (DelayResume /\ Len(pass["auto"].todo) > 1) =>
          /\ pass'["auto"].pc = "await_fetch"
          /\ pass'["auto"].guild = pass["auto"].todo[2]]_vars

\* the first guild lacks a role and has a member with a row and no rank role,
\* and the loop is in a mutation call for a member of the second guild
OtherGuildServed ==
  /\ ~Resolves(Guilds[1])
  /\ \E m \in roster \cap DOMAIN voice_time : m[1] = Guilds[1] /\ member_roles[m] = {}
  /\ InCall("auto")
  /\ pass["auto"].guild = Guilds[2]

\* C18. Force reconcile surfaces its outcome: updateroles sends the success
\* reply only when its pass did not abort and no mutation of it failed.
ForceReconcileSurfacesOutcome ==
  reply = "success" => manual_outcome = "clean"

\* C20. Exactly one tier after a pass: when a pass returns and no call of it
\* has raised, every user of its rows who is a member of the guild holds
\* exactly the rank role of his rank.
ExactlyOneTier ==
  [][\A c \in Callers :
       /\ ( /\ AtRow(c)
            /\ pass'[c].pc \in {"idle", "delay"}
            /\ pass[c].failed = {}
            /\ SleepResume(c) )
          => \A r \in 1..Len(pass[c].rows) :
               MemberAt(pass[c], r) \in roster =>
                 member_roles'[MemberAt(pass[c], r)] = {TargetRole(r)}
       /\ \A rows \in UNION {Fetched(g) : g \in GuildIds} :
            ( /\ FetchResume(c, TRUE, rows)
              /\ Resolves(pass[c].guild)
              /\ pass'[c].pc \in {"idle", "delay"} )
            => \A r \in 1..Len(rows) :
                 <<pass[c].guild, rows[r].user_id>> \in roster =>
                   member_roles'[<<pass[c].guild, rows[r].user_id>>] = {TargetRole(r)}]_vars

\* a pass is in the sleep after its last row, no call of it has raised, the
\* member of that row held several rank roles and every member of its rows
\* now holds exactly the role of his rank
SeveralMadeOne ==
  \E c \in Callers :
    /\ pass[c].pc = "await_sleep"
    /\ pass[c].rank = Len(pass[c].rows)
    /\ pass[c].failed = {}
    /\ Cardinality(pass[c].current) >= 2
    /\ \A r \in 1..Len(pass[c].rows) :
         /\ MemberAt(pass[c], r) \in roster
         /\ member_roles[MemberAt(pass[c], r)] = {TargetRole(r)}

(* ------------------------------------------------------------------ *)
(* Properties of the store writes                                     *)
(* ------------------------------------------------------------------ *)
\* the deltas the merge law is checked for
MaxDelta == 3

\* total_seconds of a key in a table, 0 when it has no row
TotalIn(table, key) == IF key \in DOMAIN table THEN table[key] ELSE 0

\* the table after delta was added to the total of a key: the row is created
\* with the delta when it is absent, the other rows are as they were
AddedTo(table, key, delta) ==
  [k \in DOMAIN table \cup {key} |->
     TotalIn(table, k) + (IF k = key THEN delta ELSE 0)]

\* merge(k, a) followed by merge(k, b) yields original + a + b
MergeLaw(table) ==
  \A k \in Keys, a \in 0..MaxDelta, b \in 0..MaxDelta :
    TotalIn(Upsert(Upsert(table, k, a), k, b), k) = TotalIn(table, k) + a + b

\* C19. Additive, non-negative merges: every write of the stop handler, of the
\* flush loop and of on_close adds a delta >= 0 to the total of its key,
\* creating the row when it is absent; nothing else writes the table, merging
\* a then b into the table before or after such a write yields original + a
\* + b, and no total ever decreases.
AdditiveMerges ==
  [][/\ voice_time' # voice_time => MergeLaw(voice_time) /\ MergeLaw(voice_time')
     /\ \A k \in Keys : TotalIn(voice_time', k) >= Total(k)
     /\ \A i \in 1..Len(inflight) :
          StopHandlerResume(i, TRUE) =>
            /\ inflight[i].session_time >= 0
            /\ voice_time' = AddedTo(voice_time, inflight[i].key, inflight[i].session_time)
     /\ (FlushFinalResume(TRUE) \/ FlushCheckpointResume(TRUE)) =>
            /\ flush.delta >= 0
            /\ voice_time' = AddedTo(voice_time, flush.key, flush.delta)
     /\ CloseSaveResume(TRUE) =>
            /\ closing.delta >= 0
            /\ voice_time' = AddedTo(voice_time, closing.key, closing.delta)
     /\ voice_time' # voice_time =>
            \/ \E i \in 1..Len(inflight) : StopHandlerResume(i, TRUE)
            \/ FlushFinalResume(TRUE) \/ FlushCheckpointResume(TRUE)
            \/ CloseSaveResume(TRUE)]_vars

\* on_close has ended and its save was added to a row that held the seconds
\* of an earlier merge
ShutdownAddedToRow ==
  /\ closing.pc = "closed" /\ closing.saved
  /\ \E k \in DOMAIN join_times :
       /\ ElapsedSince(join_times[k]) >= MIN_SESSION
       /\ Total(k) > ElapsedSince(join_times[k])

(* ------------------------------------------------------------------ *)
(* Properties of the flush checkpoint against the stop handler        *)
(* ------------------------------------------------------------------ *)
\* a stop handler for the key is suspended in its store call: the stop is
\* being processed, its "del join_times[key]" is still to come
StopInProgress(k) == \E i \in 1..Len(inflight) : inflight[i].key = k

\* C21. No session resurrection: in every reachable state a key is in
\* join_times only if a start was registered for it and no stop has been
\* processed for it since (a stop whose handler is still suspended before its
\* del is not yet processed), under every interleaving of the flush
\* checkpoint with the stop handler.
NoSessionResurrection ==
  \A k \in DOMAIN join_times : k \in DOMAIN open_since \/ StopInProgress(k)

(* ------------------------------------------------------------------ *)
(* Properties under fair scheduling                                   *)
(* ------------------------------------------------------------------ *)
\* the monotonic clock seen from a later origin: at the end of a period of
\* the loop every recorded time moves back by one period, so that the clock
\* runs on for ever in a bounded range.  An elapsed time longer than
\* MaxSeconds is kept as MaxSeconds, which is past every threshold the code
\* compares it to; the totals merged so far and the history of the sessions,
\* which no branch of the tracker reads, are forgotten
Rebase ==
  /\ ~Running /\ ~StoreCallPending
  /\ now >= 2 * LOOP_SECONDS /\ next_flush >= 2 * LOOP_SECONDS
  /\ now' = now - 2 * LOOP_SECONDS
  /\ next_flush' = next_flush - 2 * LOOP_SECONDS
  /\ join_times' = [k \in DOMAIN join_times |->
                      IF now - join_times[k] > 2 * MaxSeconds
                        THEN now' - 2 * MaxSeconds
                        ELSE join_times[k] - 2 * LOOP_SECONDS]
  /\ voice_time' = EmptyMap
  /\ open_since' = EmptyMap
  /\ due' = [k \in Keys |-> 0]
  /\ spent' = [k \in Keys |-> 0]
  /\ UNCHANGED <<env, inflight, flush, raised, last, events, roles_vars, closing>>

\* a step of the save_streaming_time task: discord.ext.tasks starts an
\* iteration every 30 s, and a store call of it returns
FlushStep ==
  \/ FlushTick
  \/ \E k \in Keys : FlushKey(k)
  \/ FlushEnd
  \/ FlushFinalResume(TRUE)
  \/ FlushCheckpointResume(TRUE)

\* the program with a store that never fails and a clock that runs on, when
\* no event is delivered for a key that has an active session: a session is
\* closed by the flush task or not at all
NextFair ==
  \/ \E k \in Keys, before \in VoiceState, after \in VoiceState :
       k \notin DOMAIN join_times /\ OnVoiceStateUpdate(k, before, after)
  \/ FlushTick
  \/ \E k \in Keys : FlushKey(k)
  \/ FlushEnd
  \/ FlushFinalResume(TRUE)
  \/ FlushCheckpointResume(TRUE)
  \/ now < 2 * LOOP_SECONDS /\ Tick
  \/ Rebase
  \/ \E k \in Keys, vs \in VoiceState : VoiceUnobserved(k, vs)
  \/ \E k \in Keys : RoleChange(k)
  \/ RoleExistence
  \/ \E k \in Keys : Membership(k)

\* the event loop schedules the flush task and time passes; nothing is
\* assumed of the events, of the roles or of the roster
SpecFair ==
  /\ Init /\ [][NextFair]_vars
  /\ WF_vars(FlushStep)
  /\ WF_vars((now < 2 * LOOP_SECONDS /\ Tick) \/ Rebase)

\* the user of the key streams with the marker role, as a member of a guild
\* that has the role
Qualifies(k) ==
  in_guild[k] /\ role_exists /\ FlushIsStreaming(k) /\ has_role[k]

\* C22. Every non-qualifying session is eventually closed: when the user of
\* an active session does not qualify (the user left the roster and the
\* marker role being deleted included), then under fair scheduling of the
\* flush task the session is eventually removed from join_times, unless the
\* user qualifies again first.
NonQualifyingSessionClosed ==
  \A k \in Keys :
    (k \in DOMAIN join_times /\ ~Qualifies(k))
      ~> (k \notin DOMAIN join_times \/ Qualifies(k))

(* ------------------------------------------------------------------ *)
(* Properties of a failed mutation and of concurrent passes           *)
(* ------------------------------------------------------------------ *)
\* C23. A failed mutation leaves the rank roles unchanged: when the remove
\* call or the add call of a pass for a user raises permission-denied or
\* another error, the rank roles of that user are those he held when the pass
\* took him up (current_vc_roles); he is not left without a rank role because
\* the remove call returned and the add call raised.
FailedMutationKeepsRoles ==
  [][\A c \in Callers, result \in Outcomes :
       ( /\ result.kind \in {"forbidden", "error"}
         /\ RemoveResume(c, result) \/ AddResume(c, result) )
       => member_roles'[Subject(pass[c])] \cap vc_role_names = pass[c].current]_vars

\* a directory call that returns
Ok == [kind |-> "ok", retry_after |-> 0]

\* the largest total a merge may bring a row to while passes run
MaxTotal == 110

\* the tracker merges delta seconds into the row of a member while passes
\* run (the store write of a stop handler or of the flush loop)
StoreWrite(k, delta) ==
  /\ k \in DOMAIN voice_time
  /\ voice_time[k] + delta <= MaxTotal
  /\ voice_time' = Upsert(voice_time, k, delta)
  /\ UNCHANGED roles_vars
  /\ UNCHANGED tracker_vars

\* every guild has the roles of the hierarchy, every user is a member, has a
\* row and holds at most one rank role, as a pass that ran alone leaves him
InitConcurrent ==
  /\ InitRoles
  /\ roster = Members
  /\ DOMAIN voice_time = Members
  /\ \A g \in GuildIds : guild_roles[g] = vc_role_names
  /\ \A m \in Members : Cardinality(member_roles[m]) <= 1

\* the periodic pass and the pass of /updateroles at once, interleaved at
\* their awaits, with a directory service and a store that never fail, while
\* the tracker merges sessions of a minute
NextConcurrent ==
  \/ AutoUpdateVcRoles
  \/ \E g \in GuildIds : UpdaterolesSlash(g)
  \/ \E c \in Callers, rows \in UNION {Fetched(g) : g \in GuildIds} :
       FetchResume(c, TRUE, rows)
  \/ \E c \in Callers : RemoveResume(c, Ok)
  \/ \E c \in Callers : AddResume(c, Ok)
  \/ \E c \in Callers : SleepResume(c)
  \/ DelayResume
  \/ \E k \in Members : StoreWrite(k, 2 * CHECKPOINT_SECONDS)

SpecConcurrent == InitConcurrent /\ [][NextConcurrent]_vars

\* the coroutine of caller c is inside update_guild_vc_roles for guild g
PassOf(c, g) ==
  /\ pass[c].pc \in {"await_fetch", "await_remove", "await_add", "await_sleep"}
  /\ pass[c].guild = g

\* C24. Concurrent passes stay consistent: when a pass of a guild returns
\* while no other pass of that guild is running, no call of the directory
\* service having failed, every member in its rows holds at most one rank
\* role, however the periodic pass and the pass of /updateroles interleaved
\* at their awaits and whatever totals each had fetched.
ConcurrentPassesConsistent ==
  [][\A c \in Callers :
       ( /\ AtRow(c)
         /\ pass'[c].pc \in {"idle", "delay"}
         /\ \A d \in Callers \ {c} : ~PassOf(d, pass[c].guild) )
       => \A r \in 1..Len(pass[c].rows) :
            Cardinality(member_roles'[MemberAt(pass[c], r)] \cap vc_role_names) <= 1]_vars

====
